---- MODULE Spec2Model ----
(***************************************************************************)
(* Mkulima Connect: the offline action queue and its sync engine           *)
(* (OfflineManager, offlineManager.js) and the payment escrow records      *)
(* (PaymentService, payementServices.js).                                  *)
(*                                                                         *)
(* JavaScript runs handlers to completion on one thread.  A handler is     *)
(* suspended only at an await on a timer or network promise; an await on   *)
(* an already settled promise resumes in a microtask, before any other     *)
(* handler runs.  One action below is one handler run from its start (or   *)
(* its resumption) to its next suspension.                                 *)
(***************************************************************************)
EXTENDS Integers, Sequences, FiniteSets, TLC

\* ------------------------------------------------------------------ bounds
MaxItems == 3      \* addToQueue calls in a behaviour
MaxDrains == 2     \* attemptSync invocations suspended at the same time
MaxTx == 2         \* processPayment calls that get past the login check
MaxClock == 2      \* distinct readings of the clock
MaxSubmit == 1     \* payments submitted at the providers' limits

\* ------------------------------------------------------------- queue items
\* the case labels of processQueueItem
RecognisedTypes ==
    {"listing_create", "listing_update", "message_send", "payment", "profile_update"}

\* the type arguments callers pass to addToQueue in this model
EnqueueTypes == {"listing_update", "payment", "bogus"}

VARIABLES
    online,          \* navigator.onLine
    offlineQueue,    \* this.offlineQueue: the array the field refers to now
    stored,          \* localStorage['mkulima_offline_queue'] (serialised)
    syncInProgress,  \* this.syncInProgress
    drains,          \* attemptSync invocations suspended at `await processQueueItem`
    nextId,          \* source of fresh queue ids (Date.now() + random)
    succeeded,       \* history: ids whose gateway call returned success
    lastAct,         \* history: the handler that ran last
    started,         \* history: the last handler run entered a drain pass
    passResults      \* history: `results` of the pass the last handler run ended

qvars == <<online, offlineQueue, stored, syncInProgress, drains, nextId,
           succeeded, lastAct, started, passResults>>

VARIABLES
    transactions,    \* PaymentService.transactions, newest first
    storedTx,        \* localStorage['mkulima_transactions'] (serialised)
    escrow,          \* localStorage['mkulima_escrow'] (serialised)
    payments,        \* processPayment invocations suspended before the PIN result
    nextTx,          \* source of fresh transaction ids (generateTransactionId)
    now,             \* the clock new Date() reads
    payResult        \* history: how the last PaymentService call ended

pvars == <<transactions, storedTx, escrow, payments, nextTx, now, payResult>>

vars == <<qvars, pvars>>

\* ------------------------------------------------------- pure functions
Ids(seq) == {seq[i].id : i \in DOMAIN seq}

\* JSON.stringify of the queue: one entry per element, in array order
JSONstringify(queue) ==
    [i \in DOMAIN queue |-> <<queue[i].id, queue[i].type, queue[i].attempts>>]

\* JSON.parse of the stored text
JSONparse(text) ==
    [i \in DOMAIN text |->
        [id |-> text[i][1], type |-> text[i][2], attempts |-> text[i][3]]]

\* mutant of QueueItem: the attempts counter starts at one
QueueItemAttempted(id, type) == [id |-> id, type |-> type, attempts |-> 1]

\* addToQueue's queueItem literal
QueueItem(id, type) == [id |-> id, type |-> type, attempts |-> 0]

\* mutant of PushItem: unshift instead of push
PushFront(queue, item) == <<item>> \o queue

\* this.offlineQueue.push(queueItem)
PushItem(queue, item) == Append(queue, item)

\* processQueueItem's switch: the gateway function called, or "throw"
ProcessQueueItem(item) ==
    CASE item.type = "listing_create" -> "syncListingCreate"
      [] item.type = "listing_update" -> "syncListingUpdate"
      [] item.type = "message_send"   -> "syncMessageSend"
      [] item.type = "payment"        -> "syncPayment"
      [] item.type = "profile_update" -> "syncProfileUpdate"
      [] OTHER                        -> "throw"

\* results.push({...item, success: true|false, ...})
Result(item, ok) == [item |-> item, success |-> ok]

RECURSIVE RunLoop(_, _, _)
\* the for-of loop from index idx on: an item whose processQueueItem throws
\* is caught and recorded within microtasks; the loop suspends at the first
\* item that makes a gateway call, or ends at the end of the array
RunLoop(arr, idx, results) ==
    IF idx <= Len(arr) /\ ProcessQueueItem(arr[idx]) = "throw"
    THEN RunLoop(arr, idx + 1, Append(results, Result(arr[idx], FALSE)))
    ELSE [idx |-> idx, results |-> results]

\* mutant of FailedItems: the filter left out, every item kept
FailedItemsAll(results) == [i \in DOMAIN results |-> results[i].item]

\* results.filter(item => !item.success).map(strip success/result/error)
FailedItems(results) ==
    LET failed == SelectSeq(results, LAMBDA r : ~r.success)
    IN  [i \in DOMAIN failed |-> failed[i].item]

\* the array a suspended loop iterates: the object this.offlineQueue referred
\* to when the loop began, which is the live queue until the field is reassigned
LoopArray(d) == IF d.alias THEN offlineQueue ELSE d.arr

\* this.offlineQueue = <new array>: suspended loops keep the old array object
Detach(drs, oldQueue) ==
    [i \in DOMAIN drs |->
        IF drs[i].alias THEN [drs[i] EXCEPT !.alias = FALSE, !.arr = oldQueue]
        ELSE drs[i]]

RemoveAt(seq, k) == [i \in 1..(Len(seq) - 1) |-> IF i < k THEN seq[i] ELSE seq[i + 1]]

\* mutant of SyncGuard: the navigator.onLine test left out
SyncGuardNoOnline(on, inProgress, queue) == ~inProgress /\ Len(queue) > 0

\* mutant of SyncGuard: the syncInProgress test left out
SyncGuardNoLock(on, inProgress, queue) == on /\ Len(queue) > 0

\* the guard at the top of attemptSync (negated: the early return)
SyncGuard(on, inProgress, queue) == on /\ ~inProgress /\ Len(queue) > 0

\* mutant of FinallyFlag: the flag reset on the all-succeeded path only
FlagResetOnSuccessOnly(results) == \E i \in DOMAIN results : ~results[i].success

\* the finally block of attemptSync: the value syncInProgress gets
FinallyFlag(results) == FALSE

\* results.filter(r => r.success).length
SuccessCount(results) == Len(SelectSeq(results, LAMBDA r : r.success))

\* mutant of FailCount: every result counted as failed
FailCountAll(results) == Len(results)

\* results.length - successCount
FailCount(results) == Len(results) - SuccessCount(results)

\* mutant of FinishPass: the localStorage.setItem after the reassignment left out
FinishPassNoPersist(s, results) ==
    [s EXCEPT !.q = FailedItems(results),
              !.sip = FinallyFlag(results),
              !.drs = Detach(s.drs, s.q),
              !.pr = results]

\* lines 129-136 and the finally block: the end of a pass.  s is the manager's
\* state as a record [on, q, st, sip, drs, started, pr]
FinishPass(s, results) ==
    LET remaining == FailedItems(results)
    IN  [s EXCEPT !.q = remaining,
                  !.st = JSONstringify(remaining),
                  !.sip = FinallyFlag(results),
                  !.drs = Detach(s.drs, s.q),
                  !.pr = results]

\* attemptSync from its call to its first suspension
AttemptSync(s) ==
    IF ~SyncGuard(s.on, s.sip, s.q) \/ Len(s.drs) >= MaxDrains THEN s
    ELSE LET r == RunLoop(s.q, 1, <<>>)
             s1 == [s EXCEPT !.sip = TRUE, !.started = TRUE]
         IN  IF r.idx > Len(s.q)
             THEN FinishPass(s1, r.results)
             ELSE [s1 EXCEPT !.drs = Append(s.drs,
                      [alias |-> TRUE, arr |-> <<>>, idx |-> r.idx,
                       results |-> r.results, startIds |-> Ids(s.q)])]

\* mutant of UpdateOnlineStatus: going offline abandons the running pass
UpdateOnlineStatusAborts(s) ==
    IF s.on /\ Len(s.q) > 0 THEN AttemptSync(s)
    ELSE IF ~s.on THEN [s EXCEPT !.drs = <<>>, !.sip = FALSE]
    ELSE s

\* mutant of UpdateOnlineStatus: only the body classes are toggled
UpdateOnlineStatusClassesOnly(s) == s

\* updateOnlineStatus, the manager's listener for 'online' and 'offline',
\* also called once by setupOfflineDetection
UpdateOnlineStatus(s) ==
    IF s.on /\ Len(s.q) > 0 THEN AttemptSync(s) ELSE s

\* main.js's 'online' listener: window.offlineManager.syncData()
MainOnlineListener(s) == AttemptSync(s)

\* the manager's state at the start of a handler run
Now == [on |-> online, q |-> offlineQueue, st |-> stored, sip |-> syncInProgress,
        drs |-> drains, started |-> FALSE, pr |-> <<>>]

\* the manager's state at the end of a handler run
Becomes(s) ==
    /\ online' = s.on
    /\ offlineQueue' = s.q
    /\ stored' = s.st
    /\ syncInProgress' = s.sip
    /\ drains' = s.drs
    /\ started' = s.started
    /\ passResults' = s.pr

\* ------------------------------------------------------------------ actions
\* addToQueue(type, data)
AddToQueue(type) ==
    /\ nextId <= MaxItems
    /\ LET queue == PushItem(offlineQueue, QueueItem(nextId, type))
       IN  Becomes([Now EXCEPT !.q = queue, !.st = JSONstringify(queue)])
    /\ nextId' = nextId + 1
    /\ lastAct' = "addToQueue"
    /\ UNCHANGED pvars
    /\ UNCHANGED succeeded

\* click on #syncButton (setupSyncButton's listener)
SyncButtonClick ==
    /\ Becomes(AttemptSync(Now))
    /\ lastAct' = "syncButton"
    /\ UNCHANGED pvars
    /\ UNCHANGED <<nextId, succeeded>>

\* syncData(), the public API
SyncData ==
    /\ Becomes(AttemptSync(Now))
    /\ lastAct' = "syncData"
    /\ UNCHANGED pvars
    /\ UNCHANGED <<nextId, succeeded>>

\* the window 'online' event, fired when navigator.onLine turns true: both
\* listeners run, each to completion
GoOnline ==
    /\ ~online
    /\ Becomes(UpdateOnlineStatus(MainOnlineListener([Now EXCEPT !.on = TRUE])))
    /\ lastAct' = "online"
    /\ UNCHANGED pvars
    /\ UNCHANGED <<nextId, succeeded>>

\* the window 'offline' event, fired when navigator.onLine turns false
\* (main.js's 'offline' listener touches no manager state)
GoOffline ==
    /\ online
    /\ Becomes(UpdateOnlineStatus([Now EXCEPT !.on = FALSE]))
    /\ lastAct' = "offline"
    /\ UNCHANGED pvars
    /\ UNCHANGED <<nextId, succeeded>>

\* syncListingCreate, syncListingUpdate, syncMessageSend, syncPayment and
\* syncProfileUpdate: each logs its data, waits on a timer and returns a copy;
\* syncPayment makes no call of the PaymentService
SyncEffect(type) == UNCHANGED pvars

\* the gateway promise awaited by the k-th suspended attemptSync settles
\* (ok: resolved, ~ok: rejected) and the loop runs on to its next suspension
GatewayReturn(k, ok) ==
    /\ k \in DOMAIN drains
    /\ LET d == drains[k]
           arr == LoopArray(d)
           r == RunLoop(arr, d.idx + 1, Append(d.results, Result(arr[d.idx], ok)))
       IN  /\ IF r.idx > Len(arr)
              THEN Becomes(FinishPass([Now EXCEPT !.drs = RemoveAt(drains, k)], r.results))
              ELSE Becomes([Now EXCEPT !.drs[k].idx = r.idx, !.drs[k].results = r.results])
           /\ succeeded' = IF ok THEN succeeded \cup {arr[d.idx].id} ELSE succeeded
           /\ SyncEffect(arr[d.idx].type)
    /\ lastAct' = "gatewayReturn"
    /\ UNCHANGED nextId

\* clearOfflineQueue(), the public API
ClearOfflineQueue ==
    /\ Becomes([Now EXCEPT !.q = <<>>, !.st = JSONstringify(<<>>),
                           !.drs = Detach(drains, offlineQueue)])
    /\ lastAct' = "clearOfflineQueue"
    /\ UNCHANGED pvars
    /\ UNCHANGED <<nextId, succeeded>>

\* page load: new OfflineManager() reads the stored queue, and init() calls
\* updateOnlineStatus() once ("Initial status"); whatever the previous page
\* had suspended is gone
Restart ==
    /\ Becomes(UpdateOnlineStatus([Now EXCEPT !.q = JSONparse(stored), !.sip = FALSE,
                                              !.drs = <<>>]))
    /\ lastAct' = "construct"
    /\ UNCHANGED pvars
    /\ UNCHANGED <<nextId, succeeded>>

\* ------------------------------------------------------- PaymentService
\* this.escrowEnabled, set in the constructor
EscrowEnabled == TRUE

\* loadPaymentProviders: fees.percentage in tenths of a percent (1.5% = 15),
\* fees.fixed and limits in currency units
Providers ==
    [mpesa       |-> [pctTenths |-> 15, fixed |-> 0,   min |-> 10,   max |-> 50000],
     tigopesa    |-> [pctTenths |-> 10, fixed |-> 100, min |-> 1000, max |-> 1000000],
     airtelmoney |-> [pctTenths |-> 12, fixed |-> 0,   min |-> 500,  max |-> 500000],
     vodacom     |-> [pctTenths |-> 15, fixed |-> 0,   min |-> 1000, max |-> 3000000]]

\* this.providers[paymentData.provider] is defined
KnownProvider(name) == name \in DOMAIN Providers

\* (amount * provider.fees.percentage / 100) + provider.fees.fixed, as whole
\* currency units and thousandths of one (1.5% of a whole amount is exact)
Fee(amount, provider) ==
    [units |-> (amount * provider.pctTenths) \div 1000 + provider.fixed,
     thousandths |-> (amount * provider.pctTenths) % 1000]

\* amount + fee
Total(amount, fee) == [units |-> amount + fee.units, thousandths |-> fee.thousandths]

\* a submitted form: paymentData after parseFloat(paymentData.amount);
\* phoneOk: paymentData.phone is present and at least 9 characters long;
\* useEscrow: paymentData.useEscrow === 'on'
Form(provider, amount, phoneOk, useEscrow) ==
    [provider |-> provider, amount |-> amount, phoneOk |-> phoneOk, useEscrow |-> useEscrow]

\* mutant of ValidatePayment: the limits compared with <= and >=
ValidatePaymentStrict(form) ==
    IF ~KnownProvider(form.provider) THEN {"TypeError: provider is undefined"}
    ELSE LET provider == Providers[form.provider]
         IN  (IF form.amount <= 0 THEN {"Invalid amount"} ELSE {})
             \cup (IF form.amount <= provider.min THEN {"Minimum amount"} ELSE {})
             \cup (IF form.amount >= provider.max THEN {"Maximum amount"} ELSE {})
             \cup (IF ~form.phoneOk THEN {"Valid phone number is required"} ELSE {})

\* validatePayment: the error it throws, as the set of its messages ({}: it
\* returns).  With an unknown provider the read of provider.limits throws a
\* TypeError before the collected messages are thrown
ValidatePayment(form) ==
    IF ~KnownProvider(form.provider) THEN {"TypeError: provider is undefined"}
    ELSE LET provider == Providers[form.provider]
         IN  (IF form.amount <= 0 THEN {"Invalid amount"} ELSE {})
             \cup (IF form.amount < provider.min THEN {"Minimum amount"} ELSE {})
             \cup (IF form.amount > provider.max THEN {"Maximum amount"} ELSE {})
             \cup (IF ~form.phoneOk THEN {"Valid phone number is required"} ELSE {})

\* JSON.stringify of the ledger
TxStringify(ledger) ==
    [i \in DOMAIN ledger |->
        <<ledger[i].id, ledger[i].status, ledger[i].escrowEnabled, ledger[i].escrowStatus,
          ledger[i].provider, ledger[i].amount, ledger[i].fee, ledger[i].total>>]

\* JSON.parse of the stored ledger
TxParse(text) ==
    [i \in DOMAIN text |->
        [id |-> text[i][1], status |-> text[i][2],
         escrowEnabled |-> text[i][3], escrowStatus |-> text[i][4],
         provider |-> text[i][5], amount |-> text[i][6],
         fee |-> text[i][7], total |-> text[i][8]]]

\* mutant of NewTransaction: escrowStatus taken from this.escrowEnabled alone
NewTransactionAlwaysHeld(id, form) ==
    [id |-> id,
     provider |-> form.provider,
     amount |-> form.amount,
     fee |-> Fee(form.amount, Providers[form.provider]),
     total |-> Total(form.amount, Fee(form.amount, Providers[form.provider])),
     status |-> "pending",
     escrowEnabled |-> (EscrowEnabled /\ form.useEscrow),
     escrowStatus |-> IF EscrowEnabled THEN "held" ELSE "none"]

\* mutant of NewTransaction: the fixed fee left out of the total
NewTransactionNoFixedFee(id, form) ==
    [id |-> id,
     provider |-> form.provider,
     amount |-> form.amount,
     fee |-> Fee(form.amount, Providers[form.provider]),
     total |-> [units |-> form.amount
                            + (form.amount * Providers[form.provider].pctTenths) \div 1000,
                thousandths |-> (form.amount * Providers[form.provider].pctTenths) % 1000],
     status |-> "pending",
     escrowEnabled |-> (EscrowEnabled /\ form.useEscrow),
     escrowStatus |-> IF EscrowEnabled /\ form.useEscrow THEN "held" ELSE "none"]

\* processPayment's fee, total and transaction literal
NewTransaction(id, form) ==
    [id |-> id,
     provider |-> form.provider,
     amount |-> form.amount,
     fee |-> Fee(form.amount, Providers[form.provider]),
     total |-> Total(form.amount, Fee(form.amount, Providers[form.provider])),
     status |-> "pending",
     escrowEnabled |-> (EscrowEnabled /\ form.useEscrow),
     escrowStatus |-> IF EscrowEnabled /\ form.useEscrow THEN "held" ELSE "none"]

\* holdInEscrow's escrowRecord literal (releasedAt 0, releaseReason "none":
\* the properties are absent)
EscrowRecord(transaction) ==
    [transactionId |-> transaction.id, status |-> "held",
     releasedAt |-> 0, releaseReason |-> "none"]

\* holdInEscrow: read the stored records, push, write back
HoldInEscrow(records, transaction) == Append(records, EscrowRecord(transaction))

\* escrowRecords.findIndex(e => e.transactionId === transactionId): the first
\* index that matches, 0 for -1
EscrowIndexOf(records, transactionId) ==
    IF \E i \in DOMAIN records : records[i].transactionId = transactionId
    THEN CHOOSE i \in DOMAIN records :
            /\ records[i].transactionId = transactionId
            /\ \A j \in 1..(i - 1) : records[j].transactionId # transactionId
    ELSE 0

\* this.transactions.findIndex(t => t.id === transactionId): the first index
\* that matches, 0 for -1
TransactionIndexOf(ledger, transactionId) ==
    IF \E i \in DOMAIN ledger : ledger[i].id = transactionId
    THEN CHOOSE i \in DOMAIN ledger :
            /\ ledger[i].id = transactionId
            /\ \A j \in 1..(i - 1) : ledger[j].id # transactionId
    ELSE 0

\* no form: the call was not a submission
NoForm == Form("none", 0, FALSE, FALSE)

\* how a PaymentService call ended: the call, the transaction id it was given
\* or made (0: none), its outcome, the status of the escrow record it found
\* ("none": it found or sought none), the messages of a validation error and
\* the form that was submitted
Outcome(op, id, out) ==
    [op |-> op, id |-> id, out |-> out, found |-> "none", errors |-> {}, form |-> NoForm]

\* the outcome of a submission that got to processPayment
Submitted(op, id, out, form) ==
    [op |-> op, id |-> id, out |-> out, found |-> "none", errors |-> {}, form |-> form]

\* the outcome of a handlePayment call whose validation threw: the messages
\* of the error its catch block shows
Rejected(form) ==
    [op |-> "handlePayment", id |-> 0, out |-> "error: validation",
     found |-> "none", errors |-> ValidatePayment(form), form |-> form]

\* the outcome of a releaseEscrow call that found a record
Released(transactionId, record) ==
    [op |-> "releaseEscrow", id |-> transactionId, out |-> "released",
     found |-> record.status, errors |-> {}, form |-> NoForm]

\* processPayment(paymentData) up to its first await; user: getCurrentUser()
\* is non-null; op: the entry point the call came through
ProcessPayment(op, user, form) ==
    IF ~user
    THEN /\ payResult' = Submitted(op, 0, "error: You must be logged in to make payments", form)
         /\ UNCHANGED <<transactions, storedTx, escrow, payments, nextTx, now>>
    ELSE IF ~KnownProvider(form.provider)
    THEN /\ payResult' = Submitted(op, 0, "error: TypeError: provider is undefined", form)
         /\ UNCHANGED <<transactions, storedTx, escrow, payments, nextTx, now>>
    ELSE /\ payments' = Append(payments, NewTransaction(nextTx, form))
         /\ nextTx' = nextTx + 1
         /\ payResult' = Submitted(op, nextTx, "processing", form)
         /\ UNCHANGED <<transactions, storedTx, escrow, now>>

\* a direct call of processPayment(paymentData)
ProcessPaymentBegin(user, form) ==
    /\ nextTx <= MaxTx
    /\ ProcessPayment("processPayment", user, form)
    /\ UNCHANGED qvars

\* handlePayment(e): the submit listener of #paymentForm, up to its first await
HandlePayment(user, form) ==
    /\ nextTx <= MaxTx
    /\ IF ValidatePayment(form) # {}
       THEN /\ payResult' = Rejected(form)
            /\ UNCHANGED <<transactions, storedTx, escrow, payments, nextTx, now>>
       ELSE ProcessPayment("handlePayment", user, form)
    /\ UNCHANGED qvars

\* mutant of SaveTransaction: the ledger replaced by the new transaction
SaveTransactionAlone(ledger, transaction) == <<transaction>>

\* saveTransaction: this.transactions.unshift(transaction)
SaveTransaction(ledger, transaction) == <<transaction>> \o ledger

\* processPayment from the result of simulatePinEntry to its end
ProcessPaymentPin(p, pinValid) ==
    /\ p \in DOMAIN payments
    /\ LET transaction == [payments[p] EXCEPT
                              !.status = IF pinValid THEN "completed" ELSE "failed"]
           ledger == SaveTransaction(transactions, transaction)
       IN  /\ transactions' = ledger
           /\ storedTx' = TxStringify(ledger)
           /\ escrow' = IF pinValid /\ transaction.escrowEnabled
                        THEN HoldInEscrow(escrow, transaction)
                        ELSE escrow
           /\ payResult' = Outcome("processPayment", transaction.id,
                                   IF pinValid THEN "completed"
                                   ELSE "error: Payment failed: Invalid PIN")
    /\ payments' = RemoveAt(payments, p)
    /\ UNCHANGED <<nextTx, now>>
    /\ UNCHANGED qvars

\* mutant of ReleaseEscrow: the ledger is updated before the record is looked up
ReleaseEscrowLedgerFirst(transactionId, reason, time) ==
    /\ time >= now /\ now' = time
    /\ LET escrowIndex == EscrowIndexOf(escrow, transactionId)
           transactionIndex == TransactionIndexOf(transactions, transactionId)
       IN  /\ IF transactionIndex # 0
              THEN /\ transactions' =
                         [transactions EXCEPT ![transactionIndex].escrowStatus = "released"]
                   /\ storedTx' = TxStringify(transactions')
              ELSE UNCHANGED <<transactions, storedTx>>
           /\ IF escrowIndex = 0
              THEN /\ payResult' = Outcome("releaseEscrow", transactionId,
                                           "error: Escrow record not found")
                   /\ UNCHANGED escrow
              ELSE /\ escrow' = [escrow EXCEPT ![escrowIndex].status = "released",
                                               ![escrowIndex].releasedAt = time,
                                               ![escrowIndex].releaseReason = reason]
                   /\ payResult' = Released(transactionId, escrow[escrowIndex])
    /\ UNCHANGED <<payments, nextTx>>
    /\ UNCHANGED qvars

\* mutant of ReleaseEscrow: the update of the linked transaction left out
ReleaseEscrowRecordOnly(transactionId, reason, time) ==
    /\ time >= now /\ now' = time
    /\ LET escrowIndex == EscrowIndexOf(escrow, transactionId)
       IN  IF escrowIndex = 0
           THEN /\ payResult' = Outcome("releaseEscrow", transactionId,
                                        "error: Escrow record not found")
                /\ UNCHANGED escrow
           ELSE /\ escrow' = [escrow EXCEPT ![escrowIndex].status = "released",
                                            ![escrowIndex].releasedAt = time,
                                            ![escrowIndex].releaseReason = reason]
                /\ payResult' = Released(transactionId, escrow[escrowIndex])
    /\ UNCHANGED <<transactions, storedTx, payments, nextTx>>
    /\ UNCHANGED qvars

\* mutant of ReleaseEscrow: a record that is already released is refused
ReleaseEscrowOnce(transactionId, reason, time) ==
    /\ time >= now /\ now' = time
    /\ LET escrowIndex == EscrowIndexOf(escrow, transactionId)
           transactionIndex == TransactionIndexOf(transactions, transactionId)
       IN  IF escrowIndex = 0
           THEN /\ payResult' = Outcome("releaseEscrow", transactionId,
                                        "error: Escrow record not found")
                /\ UNCHANGED <<transactions, storedTx, escrow>>
           ELSE IF escrow[escrowIndex].status = "released"
           THEN /\ payResult' = Outcome("releaseEscrow", transactionId,
                                        "error: Escrow already released")
                /\ UNCHANGED <<transactions, storedTx, escrow>>
           ELSE /\ escrow' = [escrow EXCEPT ![escrowIndex].status = "released",
                                            ![escrowIndex].releasedAt = time,
                                            ![escrowIndex].releaseReason = reason]
                /\ IF transactionIndex # 0
                   THEN /\ transactions' =
                              [transactions EXCEPT ![transactionIndex].escrowStatus = "released"]
                        /\ storedTx' = TxStringify(transactions')
                   ELSE UNCHANGED <<transactions, storedTx>>
                /\ payResult' = Released(transactionId, escrow[escrowIndex])
    /\ UNCHANGED <<payments, nextTx>>
    /\ UNCHANGED qvars

\* releaseEscrow(transactionId, reason); time: what new Date() gives, never
\* earlier than the clock has shown
ReleaseEscrow(transactionId, reason, time) ==
    /\ time >= now /\ now' = time
    /\ LET escrowIndex == EscrowIndexOf(escrow, transactionId)
           transactionIndex == TransactionIndexOf(transactions, transactionId)
       IN  IF escrowIndex = 0
           THEN /\ payResult' = Outcome("releaseEscrow", transactionId,
                                        "error: Escrow record not found")
                /\ UNCHANGED <<transactions, storedTx, escrow>>
           ELSE /\ escrow' = [escrow EXCEPT ![escrowIndex].status = "released",
                                            ![escrowIndex].releasedAt = time,
                                            ![escrowIndex].releaseReason = reason]
                /\ IF transactionIndex # 0
                   THEN /\ transactions' =
                              [transactions EXCEPT ![transactionIndex].escrowStatus = "released"]
                        /\ storedTx' = TxStringify(transactions')
                   ELSE UNCHANGED <<transactions, storedTx>>
                /\ payResult' = Released(transactionId, escrow[escrowIndex])
    /\ UNCHANGED <<payments, nextTx>>
    /\ UNCHANGED qvars

\* mutant of SimulateMobileMoneyCallback: a failed status also takes the
\* transaction out of escrow
CallbackResetsEscrow(transactionId, status) ==
    /\ LET transactionIndex == TransactionIndexOf(transactions, transactionId)
       IN  IF transactionIndex = 0
           THEN /\ payResult' = Outcome("callback", transactionId, "unknown transaction")
                /\ UNCHANGED <<transactions, storedTx>>
           ELSE /\ transactions' =
                      [transactions EXCEPT
                          ![transactionIndex].status = status,
                          ![transactionIndex].escrowStatus =
                              IF status = "failed" THEN "none" ELSE @]
                /\ storedTx' = TxStringify(transactions')
                /\ payResult' = Outcome("callback", transactionId, "updated")
    /\ UNCHANGED <<escrow, payments, nextTx, now>>
    /\ UNCHANGED qvars

\* simulateMobileMoneyCallback(transactionId, status)
SimulateMobileMoneyCallback(transactionId, status) ==
    /\ LET transactionIndex == TransactionIndexOf(transactions, transactionId)
       IN  IF transactionIndex = 0
           THEN /\ payResult' = Outcome("callback", transactionId, "unknown transaction")
                /\ UNCHANGED <<transactions, storedTx>>
           ELSE /\ transactions' = [transactions EXCEPT ![transactionIndex].status = status]
                /\ storedTx' = TxStringify(transactions')
                /\ payResult' = Outcome("callback", transactionId, "updated")
    /\ UNCHANGED <<escrow, payments, nextTx, now>>
    /\ UNCHANGED qvars

\* page load: new PaymentService() reads the stored ledger; suspended
\* processPayment calls of the previous page are gone
PaymentRestart ==
    /\ transactions' = TxParse(storedTx)
    /\ payments' = <<>>
    /\ payResult' = Outcome("construct", 0, "constructed")
    /\ UNCHANGED <<storedTx, escrow, nextTx, now>>
    /\ UNCHANGED qvars

PayInit ==
    /\ transactions = <<>>
    /\ storedTx = TxStringify(<<>>)
    /\ escrow = <<>>
    /\ payments = <<>>
    /\ nextTx = 1
    /\ now = 1
    /\ payResult = Outcome("construct", 0, "constructed")

\* the statuses a provider callback reports
TxStatuses == {"completed", "failed"}
ReleaseReasons == {"delivery_confirmed", "dispute_resolved"}

\* the forms submitted to the escrow state machine
EscrowForms == {Form("mpesa", 5000, TRUE, e) : e \in BOOLEAN}

\* the forms submitted at the limits: each provider one unit below its
\* minimum, at it, at its maximum and one unit above; an ordinary amount with
\* and without escrow; no amount; a short phone number; an unknown provider
SubmitForms ==
    UNION {{Form(name, Providers[name].min - 1, TRUE, TRUE),
            Form(name, Providers[name].min, TRUE, TRUE),
            Form(name, Providers[name].max, TRUE, TRUE),
            Form(name, Providers[name].max + 1, TRUE, TRUE)} : name \in DOMAIN Providers}
    \cup {Form("mpesa", 5000, TRUE, e) : e \in BOOLEAN}
    \cup {Form("mpesa", 0, TRUE, TRUE), Form("mpesa", 5000, FALSE, TRUE),
          Form("paypal", 5000, TRUE, TRUE)}

\* submission of payments: the form handler, the direct call, the PIN, release
SubmitNext ==
    \/ /\ nextTx <= MaxSubmit
       /\ \E user \in BOOLEAN, form \in SubmitForms : HandlePayment(user, form)
    \/ /\ nextTx <= MaxSubmit
       /\ \E user \in BOOLEAN, form \in SubmitForms : ProcessPaymentBegin(user, form)
    \/ \E p \in 1..MaxSubmit, pinValid \in BOOLEAN : ProcessPaymentPin(p, pinValid)
    \/ \E id \in 1..MaxSubmit, reason \in ReleaseReasons, time \in 1..MaxClock :
          ReleaseEscrow(id, reason, time)

PayNext ==
    \/ \E user \in BOOLEAN, form \in EscrowForms : ProcessPaymentBegin(user, form)
    \/ \E p \in 1..MaxTx, pinValid \in BOOLEAN : ProcessPaymentPin(p, pinValid)
    \/ \E id \in 1..MaxTx, reason \in ReleaseReasons, time \in 1..MaxClock :
          ReleaseEscrow(id, reason, time)
    \/ \E id \in 1..MaxTx, status \in TxStatuses : SimulateMobileMoneyCallback(id, status)
    \/ PaymentRestart

Init ==
    /\ PayInit
    /\ online \in BOOLEAN
    /\ offlineQueue = <<>>
    /\ stored = JSONstringify(<<>>)
    /\ syncInProgress = FALSE
    /\ drains = <<>>
    /\ nextId = 1
    /\ succeeded = {}
    /\ lastAct = "construct"
    /\ started = FALSE
    /\ passResults = <<>>

Next ==
    \/ \E type \in EnqueueTypes : AddToQueue(type)
    \/ SyncButtonClick
    \/ SyncData
    \/ GoOnline
    \/ GoOffline
    \/ \E k \in 1..MaxDrains, ok \in BOOLEAN : GatewayReturn(k, ok)
    \/ ClearOfflineQueue
    \/ Restart

Spec == Init /\ [][Next]_vars

\* the PaymentService alone: the escrow state machine (no payment operation
\* reads navigator.onLine)
PayOnlyInit == Init /\ online
PaySpec == PayOnlyInit /\ [][PayNext]_vars

\* the PaymentService alone: payments submitted at the providers' limits
SubmitSpec == Init /\ [][SubmitNext]_vars

\* one page lifetime of the manager: every handler, no reload
PageNext ==
    \/ \E type \in EnqueueTypes : AddToQueue(type)
    \/ SyncButtonClick
    \/ SyncData
    \/ GoOnline
    \/ GoOffline
    \/ \E k \in 1..MaxDrains, ok \in BOOLEAN : GatewayReturn(k, ok)
    \/ ClearOfflineQueue

\* fairness the event loop gives: a pending gateway promise settles (the
\* timers of the sync* functions fire), and its continuation then runs
LiveSpec ==
    /\ Init /\ [][PageNext]_vars
    /\ WF_vars(\E k \in 1..MaxDrains, ok \in BOOLEAN : GatewayReturn(k, ok))

\* the step enters a drain pass
PassStarts(A) == A /\ started'

\* one page lifetime in which the client is online again and again with a
\* sync trigger, every gateway call returns, and gateway calls succeed again
\* and again
FairSpec ==
    /\ Init /\ [][PageNext]_vars
    /\ WF_vars(GoOnline)
    /\ SF_vars(PassStarts(SyncButtonClick))
    /\ WF_vars(\E k \in 1..MaxDrains, ok \in BOOLEAN : GatewayReturn(k, ok))
    /\ SF_vars(\E k \in 1..MaxDrains : GatewayReturn(k, TRUE))

\* ----------------------------------------------------------------- claims
Enqueued == 1..(nextId - 1)
InsertionOrder(queue) ==
    \A i, j \in DOMAIN queue : i < j => queue[i].id < queue[j].id
Triggers == {"syncButton", "syncData", "online"}
SucceededIn(results) == {results[i].item.id : i \in {j \in DOMAIN results : results[j].success}}

\* C1: whenever no pass is running, an enqueued action is absent from the
\* queue if and only if a dispatch of it returned success.
C1_AbsentIffSucceeded ==
    ~syncInProgress =>
        \A id \in Enqueued : (id \notin Ids(offlineQueue)) <=> (id \in succeeded)

\* C2: at most one attemptSync is suspended in a pass at any time, the flag
\* syncInProgress says whether one is, and a trigger that arrives while the
\* flag is set starts nothing and leaves the queue, the store, the flag and the
\* running pass as they were.
C2_AtMostOneDrain ==
    /\ [](Len(drains) <= 1 /\ (syncInProgress <=> Len(drains) = 1))
    /\ [][(syncInProgress /\ lastAct' \in Triggers) =>
            (/\ UNCHANGED <<offlineQueue, stored, syncInProgress, drains, succeeded>>
             /\ ~started' /\ passResults' = <<>>)]_vars

\* C2 witness: a manual trigger has just returned early during a pass
C2_Witness ==
    /\ syncInProgress /\ Len(drains) = 1
    /\ lastAct \in {"syncButton", "syncData"} /\ ~started

\* C3: the queue, in memory and as reloaded from the store, lists its items in
\* the order they were enqueued, and the reloaded sequence is the in-memory one.
C3_InsertionOrder ==
    /\ InsertionOrder(offlineQueue)
    /\ InsertionOrder(JSONparse(stored))
    /\ JSONparse(stored) = offlineQueue

\* C3 witness: after a pass removed item 2 and kept the failed item 1, item 3
\* was enqueued and the page reloaded
C3_Witness ==
    /\ lastAct = "construct"
    /\ Len(offlineQueue) = 2 /\ offlineQueue[1].id = 1 /\ offlineQueue[2].id = 3
    /\ 2 \in succeeded

\* C4: no two gateway calls are in flight at once, and within a pass the call
\* in flight is for an item enqueued after every item the pass has already
\* resolved, which were themselves resolved in enqueue order.
C4_SequentialDispatch ==
    \A k \in DOMAIN drains :
        /\ \A j \in DOMAIN drains : j = k
        /\ drains[k].idx \in DOMAIN LoopArray(drains[k])
        /\ LET d == drains[k]
               cur == LoopArray(d)[d.idx]
           IN  /\ \A i \in DOMAIN d.results : d.results[i].item.id < cur.id
               /\ \A i, j \in DOMAIN d.results :
                     i < j => d.results[i].item.id < d.results[j].item.id

\* C4 witness: a pass has resolved two items and awaits the call for a third
C4_Witness ==
    \E k \in DOMAIN drains : Len(drains[k].results) = 2 /\ drains[k].idx = 3

\* C5: every item whose dispatch failed in the pass that just ended is still
\* queued, with attempts one higher than when it was dispatched.
C5_FailureRecorded ==
    \A i \in DOMAIN passResults :
        ~passResults[i].success =>
            \E j \in DOMAIN offlineQueue :
                /\ offlineQueue[j].id = passResults[i].item.id
                /\ offlineQueue[j].attempts = passResults[i].item.attempts + 1

\* C6: a pass dispatches only items that were in the queue when it started.
C6_PassSnapshot ==
    \A k \in DOMAIN drains :
        LET d == drains[k]
        IN  /\ LoopArray(d)[d.idx].id \in d.startIds
            /\ \A i \in DOMAIN d.results : d.results[i].item.id \in d.startIds

\* C7: the flag is set while a pass is suspended, and a set flag is always
\* cleared again, also when items of the pass failed.
C7_FlagReleased ==
    /\ [](Len(drains) > 0 => syncInProgress)
    /\ (syncInProgress ~> ~syncInProgress)

\* C7 witness: a pass with a failed gateway call and a throwing item has ended
\* and the flag is clear
C7_Witness ==
    /\ ~syncInProgress /\ lastAct = "gatewayReturn"
    /\ \E i, j \in DOMAIN passResults :
          /\ ~passResults[i].success /\ passResults[i].item.type = "bogus"
          /\ ~passResults[j].success /\ passResults[j].item.type # "bogus"

C9_OnlyOnlineEventStarts ==
    started => lastAct \in Triggers

\* C9 (amended): besides the manual triggers, a pass is entered exactly by
\* the 'online' event and by the construction of the manager, when
\* navigator.onLine is true, the queue is non-empty and (for the event) no
\* pass is running; the 'offline' event and the queue operations enter none.
C9_AutomaticStarts ==
    /\ [](started => (online /\ lastAct \in Triggers \cup {"construct"}))
    /\ [][/\ (~online /\ online' /\ Len(offlineQueue) > 0 /\ ~syncInProgress) => started'
          /\ (started' /\ lastAct' \in Triggers) => (~syncInProgress /\ Len(offlineQueue) > 0)
          /\ (lastAct' = "construct" /\ online /\ Len(JSONparse(stored)) > 0) => started'
          /\ (started' /\ lastAct' = "construct") => Len(JSONparse(stored)) > 0
         ]_vars

\* C9 witness: the manager was constructed online over a non-empty stored
\* queue and entered a pass
C9_Witness ==
    started /\ lastAct = "construct" /\ syncInProgress

\* C10: a ledger transaction has escrowStatus held only if it is completed,
\* has escrowEnabled and has a held escrow record; a pending or failed one has
\* escrowStatus none and no escrow record.
C10_HeldOnlyWhenCompleted ==
    \A i \in DOMAIN transactions :
        LET t == transactions[i]
        IN  /\ t.escrowStatus = "held" =>
                 /\ t.status = "completed"
                 /\ t.escrowEnabled
                 /\ \E j \in DOMAIN escrow :
                       escrow[j].transactionId = t.id /\ escrow[j].status = "held"
            /\ t.status \in {"pending", "failed"} =>
                 /\ t.escrowStatus = "none"
                 /\ \A j \in DOMAIN escrow : escrow[j].transactionId # t.id

\* C11: a releaseEscrow call for a transaction id that has an escrow record
\* completes without an error and leaves the record released, whether the
\* record was held or already released when the call was made.
C11_ReleaseTwice ==
    [][(payResult'.op = "releaseEscrow" /\ EscrowIndexOf(escrow, payResult'.id) # 0)
          => /\ payResult'.out = "released"
             /\ escrow'[EscrowIndexOf(escrow', payResult'.id)].status = "released"]_vars

\* a second releaseEscrow call on a record has returned
C11_Witness ==
    /\ payResult.op = "releaseEscrow"
    /\ payResult.out = "released"
    /\ payResult.found = "released"
    /\ escrow[EscrowIndexOf(escrow, payResult.id)].status = "released"

\* C12: a releaseEscrow call for a transaction id without an escrow record
\* fails with the error "Escrow record not found" and changes neither the
\* escrow records nor the ledger, in memory or stored.
C12_NotFoundChangesNothing ==
    [][(payResult'.op = "releaseEscrow" /\ EscrowIndexOf(escrow, payResult'.id) = 0)
          => /\ payResult'.out = "error: Escrow record not found"
             /\ UNCHANGED <<transactions, storedTx, escrow>>]_vars

\* releaseEscrow has failed for a transaction that is in the ledger
C12_Witness ==
    /\ payResult.op = "releaseEscrow"
    /\ payResult.out = "error: Escrow record not found"
    /\ TransactionIndexOf(transactions, payResult.id) # 0
    /\ EscrowIndexOf(escrow, payResult.id) = 0

\* C13: there is at most one escrow record per transaction id, and every
\* escrow record refers to a ledger transaction that is completed and has
\* escrowEnabled.
C13_OneRecordPerCompletedTx ==
    /\ \A i, j \in DOMAIN escrow :
          escrow[i].transactionId = escrow[j].transactionId => i = j
    /\ \A i \in DOMAIN escrow :
          \E k \in DOMAIN transactions :
             /\ transactions[k].id = escrow[i].transactionId
             /\ transactions[k].status = "completed"
             /\ transactions[k].escrowEnabled

\* the escrow record of a transaction of the ledger is released exactly when
\* the transaction's escrowStatus is released; a released record has its
\* releasedAt
ReleasedTogether(ledger) ==
    \A i \in DOMAIN escrow, k \in DOMAIN ledger :
        ledger[k].id = escrow[i].transactionId =>
            /\ escrow[i].status = "released" <=> ledger[k].escrowStatus = "released"
            /\ escrow[i].status = "released" => escrow[i].releasedAt # 0

\* C14: a releaseEscrow call that finds a record sets it released, stamps its
\* releasedAt with the time of the call and sets the transaction's escrowStatus
\* to released; and always, a transaction's escrow record is released if and
\* only if its escrowStatus is released, in memory and in the stored ledger.
C14_ReleaseLinksRecordAndTransaction ==
    /\ [](ReleasedTogether(transactions) /\ ReleasedTogether(TxParse(storedTx)))
    /\ [][(payResult'.op = "releaseEscrow" /\ payResult'.out = "released")
            => LET i == EscrowIndexOf(escrow', payResult'.id)
                   k == TransactionIndexOf(transactions', payResult'.id)
               IN  /\ escrow'[i].status = "released"
                   /\ escrow'[i].releasedAt = now'
                   /\ k # 0 => /\ transactions'[k].escrowStatus = "released"
                               /\ TxParse(storedTx')[k].escrowStatus = "released"]_vars

\* a release has returned: record and transaction are both released
C14_Witness ==
    /\ payResult.op = "releaseEscrow"
    /\ payResult.out = "released"
    /\ \E i \in DOMAIN escrow, k \in DOMAIN transactions :
          /\ escrow[i].transactionId = payResult.id
          /\ transactions[k].id = payResult.id
          /\ escrow[i].status = "released"
          /\ escrow[i].releasedAt = now
          /\ transactions[k].escrowStatus = "released"
          /\ TxParse(storedTx)[k].escrowStatus = "released"

InRange(form) ==
    /\ KnownProvider(form.provider)
    /\ form.amount >= Providers[form.provider].min
    /\ form.amount <= Providers[form.provider].max

\* processPayment has returned a transaction
Authorized(result) == result.op = "processPayment" /\ result.out = "completed"

\* C16: when processPayment returns, the transaction it has put into the
\* ledger has fee = amount * percentage / 100 + fixed and total = amount + fee,
\* status completed and, with escrow requested, escrowStatus held and a held
\* escrow record; 5000 at 1.5% + 0 has fee 75 and total 5075; a release that
\* follows leaves the record and the transaction's escrowStatus released.
C16_CompletedPayment ==
    /\ [][Authorized(payResult') /\ payResult' # payResult =>
            LET t == transactions'[1]
                provider == Providers[t.provider]
            IN  /\ t.id = payResult'.id
                /\ TxParse(storedTx')[1] = t
                /\ t.fee.units * 1000 + t.fee.thousandths
                      = t.amount * provider.pctTenths + provider.fixed * 1000
                /\ t.fee.thousandths \in 0..999
                /\ t.total.units = t.amount + t.fee.units
                /\ t.total.thousandths = t.fee.thousandths
                /\ t.status = "completed"
                /\ (t.provider = "mpesa" /\ t.amount = 5000) =>
                      /\ t.fee = [units |-> 75, thousandths |-> 0]
                      /\ t.total = [units |-> 5075, thousandths |-> 0]
                /\ t.escrowEnabled =>
                      /\ t.escrowStatus = "held"
                      /\ EscrowIndexOf(escrow', t.id) # 0
                      /\ escrow'[EscrowIndexOf(escrow', t.id)].status = "held"]_vars
    /\ [][(Authorized(payResult) /\ payResult'.op = "releaseEscrow"
              /\ payResult'.id = payResult.id /\ transactions[1].escrowEnabled)
            => /\ payResult'.out = "released"
               /\ escrow'[EscrowIndexOf(escrow', payResult'.id)].status = "released"
               /\ transactions'[1].escrowStatus = "released"]_vars

\* 5000 was paid by mpesa with escrow, and the escrow has been released
C16_Witness ==
    /\ payResult.op = "releaseEscrow"
    /\ payResult.out = "released"
    /\ payResult.found = "held"
    /\ \E k \in DOMAIN transactions :
          /\ transactions[k].id = payResult.id
          /\ transactions[k].provider = "mpesa"
          /\ transactions[k].amount = 5000
          /\ transactions[k].fee = [units |-> 75, thousandths |-> 0]
          /\ transactions[k].total = [units |-> 5075, thousandths |-> 0]
          /\ transactions[k].status = "completed"
          /\ transactions[k].escrowStatus = "released"

\* C17: on both paths, handlePayment and processPayment, a submission with a
\* known provider and a phone number is taken up when its amount is within the
\* provider's limits (the limits included) and the user is logged in, and is
\* rejected with nothing recorded when its amount is below the minimum or above
\* the maximum.
C17_LimitsOnEveryPath ==
    [][(payResult'.form # NoForm /\ KnownProvider(payResult'.form.provider)
          /\ payResult'.form.phoneOk)
        => IF InRange(payResult'.form)
           THEN payResult'.out \in {"processing", "error: You must be logged in to make payments"}
           ELSE /\ payResult'.out # "processing"
                /\ UNCHANGED <<payments, transactions, storedTx, escrow>>
                /\ payResult'.op = "handlePayment" =>
                       payResult'.errors \cap {"Minimum amount", "Maximum amount"} # {}]_vars

\* C19: a submission with an unknown provider or an amount outside the
\* provider's limits ends in an error, and the queue, the ledger and the
\* escrow records are as they were; no transaction is made for it.
C19_InvalidNeverRecorded ==
    [][(payResult'.form # NoForm /\ ~InRange(payResult'.form))
        => /\ payResult'.out \notin {"processing", "completed"}
           /\ payResult'.id = 0
           /\ UNCHANGED <<offlineQueue, stored, transactions, storedTx, escrow,
                           payments, nextTx>>]_vars

\* C18: when a pass has dispatched a queued payment with success, the ledger
\* has a completed transaction with a held escrow record.
C18_QueuedPaymentHoldsEscrow ==
    \A i \in DOMAIN passResults :
        (passResults[i].success /\ passResults[i].item.type = "payment") =>
            \E k \in DOMAIN transactions, j \in DOMAIN escrow :
                /\ transactions[k].status = "completed"
                /\ escrow[j].transactionId = transactions[k].id
                /\ escrow[j].status = "held"

\* the step is the end of a pass: lines 129-136 have removed the succeeded
\* items from the queue
PassEnds == lastAct' = "gatewayReturn" /\ syncInProgress /\ ~syncInProgress'

\* C20: removing what is not in the queue changes nothing: the end of a pass
\* none of whose succeeded ids is in the queue any more, and a
\* clearOfflineQueue of an empty queue, leave the queue and the store as they
\* were.
C20_RemoveIdempotent ==
    [][/\ (PassEnds /\ SucceededIn(passResults') \cap Ids(offlineQueue) = {})
            => offlineQueue' = offlineQueue /\ stored' = stored
       /\ (lastAct' = "clearOfflineQueue" /\ offlineQueue = <<>>
               /\ stored = JSONstringify(<<>>))
            => offlineQueue' = offlineQueue /\ stored' = stored]_vars

\* the transaction is in the ledger, with the fields that are not statuses
SameTransactionIn(ledger, t) ==
    \E k \in DOMAIN ledger :
        /\ ledger[k].id = t.id
        /\ ledger[k].provider = t.provider
        /\ ledger[k].amount = t.amount
        /\ ledger[k].fee = t.fee
        /\ ledger[k].total = t.total
        /\ ledger[k].escrowEnabled = t.escrowEnabled

\* C21: no step removes a transaction from the ledger, in memory or stored,
\* or an escrow record from the escrow records; of a transaction only the
\* status and the escrowStatus change.
C21_NeverDeleted ==
    [][/\ Len(transactions') >= Len(transactions)
       /\ Len(storedTx') >= Len(storedTx)
       /\ Len(escrow') >= Len(escrow)
       /\ transactions' # transactions =>
             \A k \in DOMAIN transactions : SameTransactionIn(transactions', transactions[k])
       /\ storedTx' # storedTx =>
             LET before == TxParse(storedTx)
                 after == TxParse(storedTx')
             IN  \A k \in DOMAIN before : SameTransactionIn(after, before[k])
       /\ escrow' # escrow =>
             \A i \in DOMAIN escrow :
                \E j \in DOMAIN escrow' :
                   escrow'[j].transactionId = escrow[i].transactionId]_vars

\* two payments are in the ledger after a reload, one with a released escrow
\* record, the other changed by a status callback
C21_Witness ==
    /\ payResult.op = "construct"
    /\ Len(transactions) = 2
    /\ \E i \in DOMAIN escrow : escrow[i].status = "released"
    /\ \E k \in DOMAIN transactions :
          /\ transactions[k].status = "failed"
          /\ EscrowIndexOf(escrow, transactions[k].id) # 0

\* C22: a releaseEscrow call that finds its record already released changes
\* nothing: the escrow records and the ledger, in memory and stored, are as
\* they were.
C22_SecondReleaseIsNoOp ==
    [][(payResult'.op = "releaseEscrow"
          /\ EscrowIndexOf(escrow, payResult'.id) # 0
          /\ escrow[EscrowIndexOf(escrow, payResult'.id)].status = "released")
        => /\ payResult'.out = "released"
           /\ UNCHANGED <<escrow, transactions, storedTx>>]_vars

\* none -> held -> released, as numbers
EscrowRank(status) ==
    CASE status = "none" -> 0
      [] status = "held" -> 1
      [] status = "released" -> 2

\* the escrowStatus of the transaction with this id does not move backwards
\* from ledger `before` to ledger `after`
Forward(before, after) ==
    \A k \in DOMAIN before, k2 \in DOMAIN after :
        before[k].id = after[k2].id =>
            EscrowRank(after[k2].escrowStatus) >= EscrowRank(before[k].escrowStatus)

\* C23: in no step does the escrowStatus of a transaction (being processed, in
\* the ledger, in the stored ledger) or the status of an escrow record move
\* backwards along none -> held -> released, and no escrow record disappears.
C23_EscrowMovesForward ==
    [][LET before == TxParse(storedTx)
           after == TxParse(storedTx')
       IN  /\ transactions' # transactions =>
                 /\ Forward(transactions, transactions')
                 /\ Forward(payments, transactions')
                 /\ Forward(before, transactions')
           /\ storedTx' # storedTx => Forward(before, after)
           /\ payments' # payments => Forward(payments, payments')
           /\ escrow' # escrow =>
                 \A i \in DOMAIN escrow :
                    \E j \in DOMAIN escrow' :
                       /\ escrow'[j].transactionId = escrow[i].transactionId
                       /\ EscrowRank(escrow'[j].status)
                             >= EscrowRank(escrow[i].status)]_vars

\* a status callback has run on a transaction whose escrow was released
C23_Witness ==
    /\ payResult.op = "callback"
    /\ payResult.out = "updated"
    /\ \E k \in DOMAIN transactions :
          /\ transactions[k].id = payResult.id
          /\ transactions[k].status = "failed"
          /\ transactions[k].escrowStatus = "released"
          /\ escrow[EscrowIndexOf(escrow, payResult.id)].status = "released"

\* the ids of the items a pass dispatched
Dispatched(results) == {results[i].item.id : i \in DOMAIN results}

InArrayOrder(results, arr, n) ==
    /\ Len(results) = n
    /\ n <= Len(arr)
    /\ \A i \in 1..n : results[i].item = arr[i]

\* C25: the offline event leaves a running pass as it is, and while offline a
\* gateway call still returns into the loop, which records the item and goes
\* on to the next item of the array in order, until the pass has recorded
\* every item of its array.
C25_OfflineDoesNotAbort ==
    [][/\ (lastAct' = "offline" /\ ~online')
            => UNCHANGED <<drains, syncInProgress, offlineQueue, stored>>
       /\ (lastAct' = "gatewayReturn" /\ ~online /\ Len(drains) = 1)
            => LET arr == LoopArray(drains[1])
               IN  IF drains' = <<>>
                   THEN /\ InArrayOrder(passResults', arr, Len(arr))
                        /\ ~syncInProgress'
                   ELSE /\ drains'[1].idx > drains[1].idx
                        /\ InArrayOrder(drains'[1].results, arr, drains'[1].idx - 1)
                        /\ syncInProgress']_vars

\* offline, a gateway call has returned and the loop has dispatched the next
\* item
C25_Witness ==
    /\ ~online
    /\ lastAct = "gatewayReturn"
    /\ syncInProgress
    /\ Len(drains) = 1
    /\ drains[1].results # <<>>
    /\ drains[1].idx <= Len(LoopArray(drains[1]))

\* C26: addToQueue can run in every state (as long as the model has an id
\* left); it puts one new item with attempts 0 and a fresh id at the tail of
\* the queue, writes the queue to the store and leaves the items that were
\* queued as they were; and in no step does the attempts value of a queued
\* item get smaller.
C26_EnqueueAppends ==
    /\ [](nextId <= MaxItems => \A type \in EnqueueTypes : ENABLED AddToQueue(type))
    /\ [][lastAct' = "addToQueue" /\ nextId' # nextId =>
            /\ Len(offlineQueue') = Len(offlineQueue) + 1
            /\ \A i \in DOMAIN offlineQueue : offlineQueue'[i] = offlineQueue[i]
            /\ offlineQueue'[Len(offlineQueue')].id = nextId
            /\ offlineQueue'[Len(offlineQueue')].attempts = 0
            /\ nextId \notin Ids(offlineQueue)
            /\ JSONparse(stored') = offlineQueue'
            /\ UNCHANGED <<online, syncInProgress, drains>>]_vars
    /\ [][\A i \in DOMAIN offlineQueue, j \in DOMAIN offlineQueue' :
            offlineQueue'[j].id = offlineQueue[i].id =>
                offlineQueue'[j].attempts >= offlineQueue[i].attempts]_vars

\* an item has been added behind another one while a pass was running
C26_Witness ==
    /\ lastAct = "addToQueue"
    /\ syncInProgress
    /\ drains # <<>>
    /\ Len(offlineQueue) >= 2
    /\ offlineQueue[Len(offlineQueue)].id = nextId - 1
    /\ offlineQueue[Len(offlineQueue)].attempts = 0

\* C27: while navigator.onLine is false a manual trigger (sync button,
\* syncData) changes nothing: no pass is entered, no gateway call is made,
\* the queue, the store, the flag and the suspended pass are as they were;
\* and the automatic triggers that run offline (the offline event, the
\* construction of the manager) enter no pass and leave the store as it was.
C27_OfflineTriggerIsNoOp ==
    [][/\ (lastAct' \in {"syncButton", "syncData"} /\ ~online)
            => /\ UNCHANGED <<online, offlineQueue, stored, syncInProgress, drains,
                              succeeded>>
               /\ ~started'
               /\ passResults' = <<>>
       /\ (lastAct' \in {"offline", "construct"} /\ ~online')
            => /\ ~started'
               /\ passResults' = <<>>
               /\ stored' = stored
               /\ offlineQueue' = JSONparse(stored)
               /\ UNCHANGED succeeded
               /\ lastAct' = "offline" => UNCHANGED <<syncInProgress, drains>>]_vars

\* offline with a non-empty queue and no pass running, a manual trigger has
\* returned without entering a pass
C27_Witness ==
    /\ ~online
    /\ lastAct \in {"syncButton", "syncData"}
    /\ Len(offlineQueue) > 0
    /\ ~syncInProgress
    /\ drains = <<>>
    /\ ~started

\* C28: when a pass ends, no id comes into the queue or the store that was
\* not in the queue (nothing that clearOfflineQueue removed comes back), and
\* every id that was in the queue and was not dispatched with success in the
\* pass is still in the queue and in the store.
C28_NoLossNoResurrection ==
    [][passResults' # <<>> =>
         /\ Ids(offlineQueue') \subseteq Ids(offlineQueue)
         /\ Ids(JSONparse(stored')) \subseteq Ids(offlineQueue)
         /\ (Ids(offlineQueue) \ SucceededIn(passResults')) \subseteq Ids(offlineQueue')
         /\ (Ids(offlineQueue) \ SucceededIn(passResults'))
               \subseteq Ids(JSONparse(stored'))]_vars

\* the item's type is none of processQueueItem's case labels
Unrecognised(item) == item.type \notin RecognisedTypes

\* C29: an item of an unrecognised type is never the item a suspended pass
\* waits for at the gateway; in the results of a pass it is a failed one and
\* the results go on to the end of the array behind it; and no step but
\* clearOfflineQueue takes it out of the queue or the store.
C29_UnrecognisedKind ==
    /\ [](\A k \in DOMAIN drains :
            LET arr == LoopArray(drains[k])
            IN  drains[k].idx <= Len(arr) /\ ~Unrecognised(arr[drains[k].idx]))
    /\ [][passResults' # <<>> =>
            /\ \A i \in DOMAIN passResults' :
                  Unrecognised(passResults'[i].item) =>
                      /\ ~passResults'[i].success
                      /\ passResults'[i].item.id \notin succeeded'
            /\ FailCount(passResults')
                  >= Cardinality({i \in DOMAIN passResults' :
                                     Unrecognised(passResults'[i].item)})
            /\ drains # <<>> =>
                  InArrayOrder(passResults', LoopArray(drains[1]),
                               Len(LoopArray(drains[1])))]_vars
    /\ [][lastAct' # "clearOfflineQueue" =>
            \A i \in DOMAIN offlineQueue :
                Unrecognised(offlineQueue[i]) =>
                    /\ offlineQueue[i].id \in Ids(offlineQueue')
                    /\ offlineQueue[i].id \in Ids(JSONparse(stored'))]_vars

\* the queue holds the id
Queued(id) == id \in Ids(offlineQueue)

\* the queue holds the id, on an item of a recognised type
QueuedRecognised(id) ==
    \E i \in DOMAIN offlineQueue : offlineQueue[i].id = id /\ ~Unrecognised(offlineQueue[i])

====
